---- MODULE Spec2Model ----
(***************************************************************************)
(* Model of package log (src/log/log.go): a process-wide level mask and    *)
(* sink configuration, and a fluent per-event builder that renders one     *)
(* JSON line on Msg.                                                       *)
(*                                                                         *)
(* Strings are TLA+ strings; a rendered line is the sequence of chunks     *)
(* that Msg hands to buffer.Write, so that the byte string of the line is  *)
(* the concatenation of the chunks (Bytes).  A level name is a sequence    *)
(* of one-character strings so that strings.ToLower can be computed.       *)
(***************************************************************************)
EXTENDS Integers, Sequences, FiniteSets, TLC

\* ------------------------------------------------------------------ bounds
\* The largest number of field-setter calls chained on one builder.
MaxParts == 2

\* --------------------------------------------------------------- constants
LOG_TRACE == 255
LOG_FATAL == 0
LOG_INFO == 4
LOG_WARN == 2
LOG_ERROR == 1

\* ------------------------------------------------------------------ inputs
Paths == {"/tmp/x"}
FileNames == {"", "app.log"}
LevelNames ==
    { <<"t","r","a","c","e">>, <<"d","e","b","u","g">>, <<"e","r","r","o","r">>,
      <<"w","a","r","n">>, <<"i","n","f","o">>, <<"I","n","f","o">>,
      <<"b","o","g","u","s">> }
Times == {"2026-01-02T03:04:05Z"}
Msgs == {"boom"}
StrArgs == { <<"component", "x">> }
IntArgs == { <<"code", 1>> }
Int64Args == { <<"size", -42>> }
\* a float32 value is held in millionths: 1500000 is 1.5
FloatArgs == { <<"ratio", 1500000>> }
BoolArgs == { <<"ok", TRUE>> }
NilErr == [nil |-> TRUE, text |-> ""]
ErrArgs == { NilErr, [nil |-> FALSE, text |-> "EOF"] }

\* --------------------------------------------------------------- the state
VARIABLES
    LOG_FH,      \* the file handle: Nil, or the path of the file it was opened on
    LOG_FILE,    \* the "<path>/<file>" string
    LOG_LEVEL,   \* the level mask
    LOG_STDERR,  \* whether Msg writes to standard error
    fhClosed,    \* whether the *os.File LOG_FH points to has been closed
    x,           \* the builder under construction (a Logger), or NoBuilder
    h,           \* history of x: its constructor (sev), whether LOG_LEVEL held the
                 \* severity's bits then (pass), the builder the constructor
                 \* returned (made), and the setter calls made on it since (calls)
    out          \* what the most recent call wrote, reported and returned

vars == <<LOG_FH, LOG_FILE, LOG_LEVEL, LOG_STDERR, fhClosed, x, h, out>>

Nil == "nil"
\* x and out.x hold at most one Logger: <<>> is "no builder"
NoBuilder == <<>>
NoHist == [sev |-> "", pass |-> FALSE, made |-> <<>>, calls |-> <<>>]

\* ------------------------------------------------------- library functions
Upper == <<"A","B","C","D","E","F","G","H","I","J","K","L","M",
           "N","O","P","Q","R","S","T","U","V","W","X","Y","Z">>
Lower == <<"a","b","c","d","e","f","g","h","i","j","k","l","m",
           "n","o","p","q","r","s","t","u","v","w","x","y","z">>

ToLowerChar(c) ==
    IF \E i \in 1..26 : Upper[i] = c
    THEN Lower[CHOOSE i \in 1..26 : Upper[i] = c]
    ELSE c

\* strings.ToLower on a sequence of characters
ToLower(s) == [i \in 1..Len(s) |-> ToLowerChar(s[i])]

RECURSIVE Join(_)
\* the string a sequence of strings spells
Join(s) == IF s = <<>> THEN "" ELSE s[1] \o Join(Tail(s))

RECURSIVE BitAnd(_, _)
\* Go's a & b on non-negative ints
BitAnd(a, b) ==
    IF a = 0 \/ b = 0 THEN 0
    ELSE (IF a % 2 = 1 /\ b % 2 = 1 THEN 1 ELSE 0) + 2 * BitAnd(a \div 2, b \div 2)

RECURSIVE BitOr(_, _)
\* Go's a | b on non-negative ints
BitOr(a, b) ==
    IF a = 0 THEN b
    ELSE IF b = 0 THEN a
    ELSE (IF a % 2 = 1 \/ b % 2 = 1 THEN 1 ELSE 0) + 2 * BitOr(a \div 2, b \div 2)

Digits == <<"0","1","2","3","4","5","6","7","8","9">>

RECURSIVE FmtNat(_)
FmtNat(n) == IF n < 10 THEN Digits[n + 1] ELSE FmtNat(n \div 10) \o Digits[(n % 10) + 1]

\* fmt's %d
FmtD(n) == IF n < 0 THEN "-" \o FmtNat(-n) ELSE FmtNat(n)

RECURSIVE Pad6(_, _)
Pad6(n, width) == IF width = 0 THEN "" ELSE Pad6(n \div 10, width - 1) \o Digits[(n % 10) + 1]

\* fmt's %f (six decimals) of a value held in millionths
FmtF(u) ==
    LET a == IF u < 0 THEN -u ELSE u
    IN  (IF u < 0 THEN "-" ELSE "") \o FmtNat(a \div 1000000) \o "." \o Pad6(a % 1000000, 6)

\* fmt's %t
FmtT(b) == IF b THEN "true" ELSE "false"

\* fmt.Sprintf("\"%s\":\"%s\"", key, value)
Quoted(key, value) == "\"" \o key \o "\":\"" \o value \o "\""

\* ------------------------------------------------------------- the builder
\* NewLogger testing for any common bit instead of containment
NewLogger_anyBit(mask, level) ==
    [parts |-> <<>>, ignore |-> BitAnd(mask, level) = 0]

\* NewLogger, with the LOG_LEVEL it reads passed as mask
NewLogger(mask, level) ==
    [parts |-> <<>>, ignore |-> BitAnd(mask, level) # level]

\* the body shared by Info, Warn, Error and Debug: NewLogger, then the level fragment
Leveled(mask, level, name) ==
    LET b == NewLogger(mask, level)
    IN  IF b.ignore THEN b
        ELSE [b EXCEPT !.parts = Append(b.parts, Quoted("level", name))]

xInfo(mask) == Leveled(mask, LOG_INFO, "info")
xWarn(mask) == Leveled(mask, LOG_WARN, "warn")
xError(mask) == Leveled(mask, LOG_ERROR, "error")
xDebug(mask) == Leveled(mask, LOG_TRACE, "debug")
\* Fatal filtered the way Debug is
xFatal_filtered == Leveled(LOG_LEVEL, LOG_TRACE, "fatal")

xFatal == [parts |-> <<Quoted("level", "fatal")>>, ignore |-> FALSE]

\* a setter that puts its fragment before the others
Field_front(b, fragment) ==
    IF b.ignore THEN b ELSE [b EXCEPT !.parts = <<fragment>> \o b.parts]

\* the body shared by Str, Bool, Int, Int64 and Float: append unless ignored
Field(b, fragment) ==
    IF b.ignore THEN b ELSE [b EXCEPT !.parts = Append(b.parts, fragment)]

xStr(b, key, value) == Field(b, Quoted(key, value))
xBool(b, key, value) == Field(b, Quoted(key, FmtT(value)))
\* Int without the test of the ignore flag
xInt_unguarded(b, key, value) ==
    [b EXCEPT !.parts = Append(b.parts, Quoted(key, FmtD(value)))]

xInt(b, key, value) == Field(b, Quoted(key, FmtD(value)))
xInt64(b, key, value) == Field(b, Quoted(key, FmtD(value)))
xFloat(b, key, value) == Field(b, Quoted(key, FmtF(value)))
xErr(b, err) ==
    IF b.ignore \/ err.nil THEN b
    ELSE [b EXCEPT !.parts = Append(b.parts, Quoted("error", err.text))]

RECURSIVE Items(_)
\* the loop of Msg: each part, then a comma
Items(parts) ==
    IF parts = <<>> THEN <<>> ELSE <<parts[1], ",">> \o Items(Tail(parts))

\* the buffer Msg fills, as the sequence of chunks written to it
Render(parts, t, msg) ==
    <<"{", "\"time\":\"" \o t \o "\",">> \o Items(parts)
        \o <<"\"message\":\"" \o msg \o "\"", "}", "\n">>

NoWrites == [stderr |-> <<>>, file |-> <<>>, landed |-> <<>>]

\* Msg writing to standard error whatever LOG_STDERR is
Sinks_stderrAlways(line, stderrOn, fh, closed) ==
    [stderr |-> <<line>>,
     file   |-> IF fh # Nil THEN <<line>> ELSE <<>>,
     landed |-> IF fh # Nil /\ ~closed THEN <<line>> ELSE <<>>]

\* the two writes of Msg: stderr is the lines written to os.Stderr, file the
\* lines handed to LOG_FH.Write, landed those of them that reached the file
\* (a Write on a closed *os.File fails, and Msg drops the error)
Sinks(line, stderrOn, fh, closed) ==
    [stderr |-> IF stderrOn THEN <<line>> ELSE <<>>,
     file   |-> IF fh # Nil THEN <<line>> ELSE <<>>,
     landed |-> IF fh # Nil /\ ~closed THEN <<line>> ELSE <<>>]

\* Msg on builder b, with the globals it reads passed in
xMsg(b, msg, t, stderrOn, fh, closed) ==
    IF b.ignore THEN NoWrites
    ELSE Sinks(Render(b.parts, t, msg), stderrOn, fh, closed)

\* ---------------------------------------------------------- initialization
\* the switch with a default branch that resets the mask
LevelMask_reset(lower, cur) ==
    LET name == Join(lower)
    IN  CASE name = "trace" -> LOG_TRACE
          [] name = "debug" -> LOG_TRACE
          [] name = "error" -> LOG_ERROR
          [] name = "warn"  -> BitOr(LOG_ERROR, LOG_WARN)
          [] name = "info"  -> BitOr(BitOr(LOG_ERROR, LOG_WARN), LOG_INFO)
          [] OTHER -> LOG_ERROR

\* the switch of InitLogger on the lowered level name; cur is LOG_LEVEL before it
LevelMask(lower, cur) ==
    LET name == Join(lower)
    IN  CASE name = "trace" -> LOG_TRACE
          [] name = "debug" -> LOG_TRACE
          [] name = "error" -> LOG_ERROR
          [] name = "warn"  -> BitOr(LOG_ERROR, LOG_WARN)
          [] name = "info"  -> BitOr(BitOr(LOG_ERROR, LOG_WARN), LOG_INFO)
          [] OTHER -> cur

\* What the operating system answers to the calls of InitLogger: dir and file
\* are whether os.Stat finds the directory and the log file, mkdir, create and
\* open whether os.Mkdir, os.Create and os.OpenFile succeed.  A file cannot
\* exist or be created in a directory that does not exist; an answer to a call
\* InitLogger does not make is held at TRUE.
OsAnswers ==
    { a \in [dir : BOOLEAN, mkdir : BOOLEAN, file : BOOLEAN,
             create : BOOLEAN, open : BOOLEAN] :
        /\ a.dir => a.mkdir
        /\ a.file => a.dir /\ a.create
        /\ ~a.file => a.open
        /\ (~a.dir /\ ~a.mkdir) => ~a.create }

NoneAsked == [dir |-> TRUE, mkdir |-> TRUE, file |-> TRUE, create |-> TRUE, open |-> TRUE]

\* the file handling assigning LOG_FH only when the create or open succeeded
OpenLog_keep(logFile, os) ==
    LET ok == IF os.file THEN os.open ELSE os.create
    IN  [fh |-> IF ok THEN logFile ELSE LOG_FH,
         closed |-> IF ok THEN FALSE ELSE fhClosed,
         console |-> IF ok THEN <<>>
                     ELSE IF os.file THEN <<"[ERROR] open log file failed">>
                     ELSE <<"[ERROR] create log file failed">>,
         outcome |-> IF os.file THEN (IF ok THEN "opened" ELSE "openFailed")
                     ELSE (IF ok THEN "created" ELSE "createFailed"),
         mkdirFailed |-> ~os.dir /\ ~os.mkdir]

\* the file handling of InitLogger for a non-empty file name: os.Create and
\* os.OpenFile return a nil *os.File with their error, and LOG_FH is assigned
\* what they return
OpenLog(logFile, os) ==
    LET mkdirFailed == ~os.dir /\ ~os.mkdir
    IN  IF ~os.file
        THEN IF os.create
             THEN [fh |-> logFile, closed |-> FALSE, console |-> <<>>,
                   outcome |-> "created", mkdirFailed |-> mkdirFailed]
             ELSE [fh |-> Nil, closed |-> FALSE,
                   console |-> <<"[ERROR] create log file failed">>,
                   outcome |-> "createFailed", mkdirFailed |-> mkdirFailed]
        ELSE IF os.open
             THEN [fh |-> logFile, closed |-> FALSE, console |-> <<>>,
                   outcome |-> "opened", mkdirFailed |-> mkdirFailed]
             ELSE [fh |-> Nil, closed |-> FALSE,
                   console |-> <<"[ERROR] open log file failed">>,
                   outcome |-> "openFailed", mkdirFailed |-> mkdirFailed]

\* an empty file name clearing the handle
KeepLog_reset(fh, closed) ==
    [fh |-> Nil, closed |-> FALSE, console |-> <<>>, outcome |-> "none",
     mkdirFailed |-> FALSE]

\* with an empty file name InitLogger skips the file handling
KeepLog(fh, closed) ==
    [fh |-> fh, closed |-> closed, console |-> <<>>, outcome |-> "none",
     mkdirFailed |-> FALSE]

\* the globals InitLogger has set when it reaches its last statement
Configure(path, file, level, standardError, os) ==
    LET logFile == path \o "/" \o file
    IN  [file   |-> logFile,
         stderr |-> standardError,
         level  |-> LevelMask(ToLower(level), LOG_LEVEL),
         log    |-> IF file # "" THEN OpenLog(logFile, os)
                    ELSE KeepLog(LOG_FH, fhClosed)]

\* the startup event emitted before the globals are set
Startup_early(cfg, level, t) ==
    xMsg(xStr(xStr(xStr(xInfo(LOG_LEVEL), "component", "osintami"),
                   "level", Join(level)),
              "file", cfg.file),
         "logging started", t, LOG_STDERR, LOG_FH, fhClosed)

\* the last statement of InitLogger: the startup event, under the globals cfg
Startup(cfg, level, t) ==
    xMsg(xStr(xStr(xStr(xInfo(cfg.level), "component", "osintami"),
                   "level", Join(level)),
              "file", cfg.file),
         "logging started", t, cfg.stderr, cfg.log.fh, cfg.log.closed)

\* a Close that dereferences a nil receiver
Close_nilPanics(fh, closed) ==
    IF fh = Nil THEN [closed |-> closed, err |-> "", panic |-> TRUE]
    ELSE IF closed THEN [closed |-> TRUE, err |-> "file already closed", panic |-> FALSE]
    ELSE [closed |-> TRUE, err |-> "", panic |-> FALSE]

\* (*os.File).Close as Shutdown calls it: on a nil receiver it returns
\* ErrInvalid, on a closed file an error too; neither panics
Close(fh, closed) ==
    IF fh = Nil THEN [closed |-> closed, err |-> "invalid argument", panic |-> FALSE]
    ELSE IF closed THEN [closed |-> TRUE, err |-> "file already closed", panic |-> FALSE]
    ELSE [closed |-> TRUE, err |-> "", panic |-> FALSE]

LogFile == LOG_FILE

\* ----------------------------------------------------------------- actions
\* out of a call that writes nothing
Quiet(op) ==
    [op |-> op, args |-> <<>>, pre |-> [fh |-> LOG_FH, closed |-> fhClosed, level |-> LOG_LEVEL],
     x |-> NoBuilder, h |-> NoHist,
     stderr |-> <<>>, file |-> <<>>, landed |-> <<>>, to |-> LOG_FH,
     console |-> <<>>, outcome |-> "none", mkdirFailed |-> FALSE,
     err |-> "", fault |-> FALSE]

Contains(mask, bit) == BitAnd(mask, bit) = bit

Init ==
    /\ LOG_FH = Nil
    /\ LOG_FILE = ""
    /\ LOG_LEVEL = LOG_ERROR
    /\ LOG_STDERR = TRUE
    /\ fhClosed = FALSE
    /\ x = NoBuilder
    /\ h = NoHist
    /\ out = [op |-> "", args |-> <<>>, pre |-> [fh |-> Nil, closed |-> FALSE, level |-> LOG_ERROR],
              x |-> NoBuilder, h |-> NoHist,
              stderr |-> <<>>, file |-> <<>>, landed |-> <<>>, to |-> Nil,
              console |-> <<>>, outcome |-> "none", mkdirFailed |-> FALSE,
              err |-> "", fault |-> FALSE]

\* InitLogger and Shutdown read and write the globals only, and the setters
\* neither read nor write them: a call of InitLogger or Shutdown made during an
\* event's chain changes the globals exactly as the same call made right after
\* the event's constructor.  They are therefore taken between events and right
\* after a constructor (one InitLogger, then Shutdown); the globals and
\* builders that meet are the same as with the calls taken anywhere.
Interleaves(after) ==
    IF x = NoBuilder
    THEN out.op = "Msg" => out.h.calls = <<>>
    ELSE h.calls = <<>> /\ out.op \in {h.sev} \cup after

InitLogger(path, file, level, standardError) ==
    /\ Interleaves({})
    /\ \E os \in (IF file = "" THEN {NoneAsked} ELSE OsAnswers), t \in Times :
      \E cfg \in {Configure(path, file, level, standardError, os)} :
        \E w \in {Startup(cfg, level, t)} :
            /\ LOG_FILE' = cfg.file
            /\ LOG_STDERR' = cfg.stderr
            /\ LOG_LEVEL' = cfg.level
            /\ LOG_FH' = cfg.log.fh
            /\ fhClosed' = cfg.log.closed
            /\ out' = [Quiet("InitLogger") EXCEPT
                          !.args = <<path, file, level, standardError, t>>,
                          !.stderr = w.stderr, !.file = w.file, !.landed = w.landed,
                          !.to = cfg.log.fh, !.console = cfg.log.console,
                          !.outcome = cfg.log.outcome,
                          !.mkdirFailed = cfg.log.mkdirFailed]
            /\ UNCHANGED <<x, h>>

\* a severity constructor: b is the builder it returns
Construct(sev, bit, b) ==
    /\ x = NoBuilder
    /\ x' = <<b>>
    /\ h' = [sev |-> sev, pass |-> Contains(LOG_LEVEL, bit), made |-> <<b>>, calls |-> <<>>]
    /\ out' = Quiet(sev)
    /\ UNCHANGED <<LOG_FH, LOG_FILE, LOG_LEVEL, LOG_STDERR, fhClosed>>

Info == Construct("info", LOG_INFO, xInfo(LOG_LEVEL))
Warn == Construct("warn", LOG_WARN, xWarn(LOG_LEVEL))
Error == Construct("error", LOG_ERROR, xError(LOG_LEVEL))
Debug == Construct("debug", LOG_TRACE, xDebug(LOG_LEVEL))
Fatal == Construct("fatal", LOG_FATAL, xFatal)

\* a field setter called on the builder: b is the builder it returns
Setter(kind, arg, b) ==
    /\ x # NoBuilder
    /\ Len(h.calls) < MaxParts
    /\ x' = <<b>>
    /\ h' = [h EXCEPT !.calls = Append(@, [kind |-> kind, arg |-> arg])]
    /\ out' = Quiet(kind)
    /\ UNCHANGED <<LOG_FH, LOG_FILE, LOG_LEVEL, LOG_STDERR, fhClosed>>

SetStr(key, value) == Setter("Str", <<key, value>>, xStr(x[1], key, value))
SetInt(key, value) == Setter("Int", <<key, value>>, xInt(x[1], key, value))
SetInt64(key, value) == Setter("Int64", <<key, value>>, xInt64(x[1], key, value))
SetFloat(key, value) == Setter("Float", <<key, value>>, xFloat(x[1], key, value))
SetBool(key, value) == Setter("Bool", <<key, value>>, xBool(x[1], key, value))
SetErr(err) == Setter("Err", err, xErr(x[1], err))

Msg(msg) ==
    /\ x # NoBuilder
    /\ \E t \in Times :
        \E w \in {xMsg(x[1], msg, t, LOG_STDERR, LOG_FH, fhClosed)} :
            out' = [Quiet("Msg") EXCEPT
                       !.args = <<msg, t>>, !.x = x, !.h = h,
                       !.stderr = w.stderr, !.file = w.file, !.landed = w.landed]
    /\ x' = NoBuilder
    /\ h' = NoHist
    /\ UNCHANGED <<LOG_FH, LOG_FILE, LOG_LEVEL, LOG_STDERR, fhClosed>>

Shutdown ==
    LET r == Close(LOG_FH, fhClosed)
    IN  /\ Interleaves({"InitLogger"})
        /\ fhClosed' = r.closed
        /\ out' = [Quiet("Shutdown") EXCEPT !.err = r.err, !.fault = r.panic]
        /\ UNCHANGED <<LOG_FH, LOG_FILE, LOG_LEVEL, LOG_STDERR, x, h>>

Next ==
    \/ \E path \in Paths, file \in FileNames, level \in LevelNames,
          standardError \in BOOLEAN : InitLogger(path, file, level, standardError)
    \/ Info
    \/ Warn
    \/ Error
    \/ Debug
    \/ Fatal
    \/ \E a \in StrArgs : SetStr(a[1], a[2])
    \/ \E a \in IntArgs : SetInt(a[1], a[2])
    \/ \E a \in Int64Args : SetInt64(a[1], a[2])
    \/ \E a \in FloatArgs : SetFloat(a[1], a[2])
    \/ \E a \in BoolArgs : SetBool(a[1], a[2])
    \/ \E e \in ErrArgs : SetErr(e)
    \/ \E msg \in Msgs : Msg(msg)
    \/ Shutdown

Spec == Init /\ [][Next]_vars

\* ------------------------------------------------------------ the claims
\* the byte string of a rendered line
Bytes(line) == Join(line)

\* the most recent call was Msg, on a builder of one of the given constructors
Finalized(sevs) == out.op = "Msg" /\ out.h.sev \in sevs

Filtered == {"info", "warn", "error", "debug"}

\* the most recent call left a line on standard error or on the file
Visible == out.stderr # <<>> \/ out.landed # <<>>

\* a sink is enabled: standard error, or a file handle that is set and open
SinkEnabled == LOG_STDERR \/ (LOG_FH # Nil /\ ~fhClosed)

Recognized(level) ==
    Join(ToLower(level)) \in {"trace", "debug", "error", "warn", "info"}

\* C1 as stated: an event built by Info, Warn, Error or Debug and finalized by
\* Msg leaves visible output if and only if LOG_LEVEL held the bits of its
\* severity when it was built (in the states no Shutdown has touched).
C1_Original ==
    (Finalized(Filtered) /\ ~fhClosed) => (Visible <=> out.h.pass)

\* C1, amended: such an event is built active (not ignored) if and only if
\* LOG_LEVEL held the bits of its severity when it was built, and it leaves
\* visible output if and only if it is active and a sink is enabled when Msg runs.
C1_Filter ==
    Finalized(Filtered) =>
        /\ ~out.x[1].ignore <=> out.h.pass
        /\ Visible <=> (out.h.pass /\ SinkEnabled)

\* an Info event that passed the filter and met no enabled sink
C1_Witness ==
    /\ Finalized({"info"})
    /\ out.h.pass
    /\ ~LOG_STDERR
    /\ LOG_FH = Nil
    /\ ~Visible

\* C2 as stated: a Fatal event is built active and Msg on it leaves output,
\* whatever the mask (in the states no Shutdown has touched).
C2_Original ==
    (Finalized({"fatal"}) /\ ~fhClosed) => (~out.x[1].ignore /\ Visible)

\* C2, amended: a Fatal event is built active whatever the mask, and Msg on it
\* writes the line to every enabled sink: it leaves visible output if and only
\* if a sink is enabled.
C2_Fatal ==
    Finalized({"fatal"}) =>
        /\ ~out.x[1].ignore
        /\ out.stderr # <<>> <=> LOG_STDERR
        /\ out.file # <<>> <=> LOG_FH # Nil
        /\ Visible <=> SinkEnabled

\* a Fatal event written under the Error-only mask
C2_Witness ==
    /\ Finalized({"fatal"})
    /\ LOG_LEVEL = LOG_ERROR
    /\ ~Contains(LOG_LEVEL, LOG_WARN)
    /\ out.stderr # <<>>
    /\ out.landed # <<>>

\* C3 as stated: after InitLogger with an unrecognized level name the mask is
\* the Error-only default.
C3_Original ==
    (out.op = "InitLogger" /\ ~Recognized(out.args[3])) => LOG_LEVEL = LOG_ERROR

\* C3, amended: InitLogger with an unrecognized level name leaves the mask at
\* the value it had before the call (the Error-only default when no earlier
\* call has widened it).
C3_Unrecognized ==
    (out.op = "InitLogger" /\ ~Recognized(out.args[3])) => LOG_LEVEL = out.pre.level

\* a re-initialization with an unrecognized name on top of the "info" mask
C3_Witness ==
    /\ out.op = "InitLogger"
    /\ ~Recognized(out.args[3])
    /\ out.pre.level = 7
    /\ LOG_LEVEL = 7

\* the line Msg renders for the builder it was last called on
MsgLine == Render(out.x[1].parts, out.args[2], out.args[1])

Active == out.op = "Msg" /\ ~out.x[1].ignore

\* C4: Msg on an active builder writes the rendered line exactly once to
\* standard error if and only if LOG_STDERR is set when Msg runs, and hands it
\* exactly once to LOG_FH if and only if LOG_FH is set when Msg runs; the line
\* reaches the file whenever that handle is open.
C4_Sinks ==
    Active =>
        /\ out.stderr = (IF LOG_STDERR THEN <<MsgLine>> ELSE <<>>)
        /\ out.file = (IF LOG_FH # Nil THEN <<MsgLine>> ELSE <<>>)
        /\ out.to = LOG_FH
        /\ ~fhClosed => out.landed = out.file
        /\ out.console = <<>>

\* after InitLogger("/tmp/x", "app.log", "warn", true) with a successful open:
\* Error().Str("component","x").Msg("boom") leaves one line on each sink
C4_Witness ==
    /\ Active
    /\ LOG_LEVEL = 3
    /\ LOG_STDERR
    /\ LOG_FH = "/tmp/x/app.log"
    /\ LogFile = "/tmp/x/app.log"
    /\ ~fhClosed
    /\ Len(out.stderr) = 1
    /\ out.landed = out.stderr
    /\ Bytes(out.stderr[1]) =
         "{\"time\":\"2026-01-02T03:04:05Z\",\"level\":\"error\",\"component\":\"x\",\"message\":\"boom\"}\n"

\* C5: a builder its constructor marked ignore stays the builder the
\* constructor returned (no fragment, ignore set) through every chain of
\* setters, and Msg on it writes nothing to standard error, to the file or to
\* the console, whatever the sinks are when Msg runs.
C5_Ignored ==
    /\ (x # NoBuilder /\ h.made[1].ignore) => (x = h.made /\ x[1].parts = <<>>)
    /\ (out.op = "Msg" /\ out.h.made[1].ignore) =>
          /\ out.x = out.h.made
          /\ out.stderr = <<>>
          /\ out.file = <<>>
          /\ out.landed = <<>>
          /\ out.console = <<>>

\* an Info event built ignored, given two fields, and finalized after a
\* re-initialization that enabled Info and both sinks
C5_Witness ==
    /\ Finalized({"info"})
    /\ out.h.made[1].ignore
    /\ Len(out.h.calls) = 2
    /\ out.h.calls[1].kind # out.h.calls[2].kind
    /\ Contains(LOG_LEVEL, LOG_INFO)
    /\ LOG_STDERR
    /\ LOG_FH # Nil
    /\ ~fhClosed

\* the fragment a setter call adds, <<>> for Err(nil)
CallFragments(c) ==
    CASE c.kind = "Str" -> <<Quoted(c.arg[1], c.arg[2])>>
      [] c.kind = "Int" -> <<Quoted(c.arg[1], FmtD(c.arg[2]))>>
      [] c.kind = "Int64" -> <<Quoted(c.arg[1], FmtD(c.arg[2]))>>
      [] c.kind = "Float" -> <<Quoted(c.arg[1], FmtF(c.arg[2]))>>
      [] c.kind = "Bool" -> <<Quoted(c.arg[1], FmtT(c.arg[2]))>>
      [] c.kind = "Err" -> IF c.arg.nil THEN <<>> ELSE <<Quoted("error", c.arg.text)>>

RECURSIVE FieldsOf(_)
\* the fragments of a sequence of setter calls, in call order
FieldsOf(calls) ==
    IF calls = <<>> THEN <<>> ELSE CallFragments(calls[1]) \o FieldsOf(Tail(calls))

\* C6: a line Msg writes is "{", the time field, one level field, the callers'
\* fields in call order (one per setter call, none for Err(nil)), each
\* followed by a comma, the message field, "}" and a newline.
C6_Order ==
    Active =>
        LET fields == <<Quoted("level", out.h.sev)>> \o FieldsOf(out.h.calls)
            n == Len(fields)
        IN  /\ Len(MsgLine) = 2 * n + 5
            /\ MsgLine[1] = "{"
            /\ MsgLine[2] = "\"time\":\"" \o out.args[2] \o "\","
            /\ \A i \in 1..n : MsgLine[2 * i + 1] = fields[i] /\ MsgLine[2 * i + 2] = ","
            /\ MsgLine[2 * n + 3] = "\"message\":\"" \o out.args[1] \o "\""
            /\ MsgLine[2 * n + 4] = "}"
            /\ MsgLine[2 * n + 5] = "\n"
            /\ \A i \in 1..Len(out.stderr) : out.stderr[i] = MsgLine
            /\ \A i \in 1..Len(out.file) : out.file[i] = MsgLine

\* a Fatal event with a float field, then a string field, written to standard error
C6_Witness ==
    /\ Active
    /\ out.h.sev = "fatal"
    /\ Len(out.h.calls) = 2
    /\ out.h.calls[1].kind = "Float"
    /\ out.h.calls[2].kind = "Str"
    /\ Len(out.stderr) = 1
    /\ Bytes(out.stderr[1]) =
         "{\"time\":\"2026-01-02T03:04:05Z\",\"level\":\"fatal\",\"ratio\":\"1.500000\",\"component\":\"x\",\"message\":\"boom\"}\n"

\* the most recent call was InitLogger, and its os.Create or os.OpenFile failed
InitFailed == out.op = "InitLogger" /\ out.outcome \in {"createFailed", "openFailed"}

\* the globals as a failed file-backed InitLogger leaves them: a file is named
\* and no handle is set
Degraded == LOG_FH = Nil /\ LOG_FILE \in { d \o "/" \o f : d \in Paths, f \in FileNames \ {""} }

C8_Original ==
    out.op = "Shutdown" => (~out.fault <=> LOG_FH # Nil)

\* C8, amended: Shutdown returns normally in every state.  With LOG_FH unset
\* Close returns an error that Shutdown drops, and nothing changes; with
\* LOG_FH set the file is closed afterwards.
C8_Shutdown ==
    out.op = "Shutdown" =>
        /\ ~out.fault
        /\ LOG_FH = out.pre.fh
        /\ LOG_FH = Nil => (out.err = "invalid argument" /\ fhClosed = out.pre.closed)
        /\ LOG_FH # Nil => fhClosed

\* Shutdown called before any file was opened
C8_Witness ==
    /\ out.op = "Shutdown"
    /\ LOG_FH = Nil
    /\ LOG_FILE = ""
    /\ ~out.fault

\* the startup line of InitLogger(path, file, level, _) rendered at time t
StartupLine(path, file, level, t) ==
    <<"{", "\"time\":\"" \o t \o "\",",
      "\"level\":\"info\"", ",",
      "\"component\":\"osintami\"", ",",
      "\"level\":\"" \o Join(level) \o "\"", ",",
      "\"file\":\"" \o path \o "/" \o file \o "\"", ",",
      "\"message\":\"logging started\"", "}", "\n">>

\* C9: InitLogger writes at most one line to each sink, the startup line, and
\* writes it under the mask, stderr flag and file handle that the same call
\* has set: to each enabled sink when that mask holds the Info bit, nowhere
\* otherwise.  The mask holds the Info bit exactly for the levels trace, debug
\* and info, and for an unrecognized level on a prior mask that held it.
C9_Startup ==
    out.op = "InitLogger" =>
        LET line == StartupLine(out.args[1], out.args[2], out.args[3], out.args[5])
            pass == Contains(LOG_LEVEL, LOG_INFO)
        IN  /\ out.stderr = (IF pass /\ LOG_STDERR THEN <<line>> ELSE <<>>)
            /\ out.file = (IF pass /\ LOG_FH # Nil THEN <<line>> ELSE <<>>)
            /\ out.landed = (IF pass /\ LOG_FH # Nil /\ ~fhClosed THEN <<line>> ELSE <<>>)
            /\ out.to = LOG_FH
            /\ LOG_STDERR = out.args[4]
            /\ pass <=> \/ Join(ToLower(out.args[3])) \in {"trace", "debug", "info"}
                        \/ ~Recognized(out.args[3]) /\ Contains(out.pre.level, LOG_INFO)

\* a startup line written to a file the same call opened, under a mask the
\* same call widened, with standard error switched off by the same call
C9_Witness ==
    /\ out.op = "InitLogger"
    /\ ~Contains(out.pre.level, LOG_INFO)
    /\ out.pre.fh = Nil
    /\ out.outcome = "created"
    /\ ~LOG_STDERR
    /\ out.stderr = <<>>
    /\ Len(out.landed) = 1
    /\ Bytes(out.landed[1]) =
         "{\"time\":\"2026-01-02T03:04:05Z\",\"level\":\"info\",\"component\":\"osintami\",\"level\":\"Info\",\"file\":\"/tmp/x/app.log\",\"message\":\"logging started\"}\n"

\* C10: InitLogger with an empty file name leaves LOG_FH as it was; a handle
\* set before stays the file sink of the startup event of that call and of
\* every event finalized later, while LogFile returns "<path>/", which is not
\* the file written.
C10_KeepsHandle ==
    /\ (out.op = "InitLogger" /\ out.args[2] = "") =>
          /\ LOG_FH = out.pre.fh
          /\ fhClosed = out.pre.closed
          /\ out.to = out.pre.fh
          /\ LogFile = out.args[1] \o "/"
          /\ LOG_FH # Nil =>
                /\ LogFile # LOG_FH
                /\ Contains(LOG_LEVEL, LOG_INFO) => Len(out.file) = 1
                /\ (Contains(LOG_LEVEL, LOG_INFO) /\ ~fhClosed) => Len(out.landed) = 1
    /\ (Active /\ LOG_FH # Nil) =>
          /\ out.to = LOG_FH
          /\ out.file = <<MsgLine>>
          /\ ~fhClosed => out.landed = <<MsgLine>>

\* an event written to the file of an earlier InitLogger while LogFile
\* returns the "<path>/" of a later one
C10_Witness ==
    /\ Active
    /\ LogFile = "/tmp/x/"
    /\ LOG_FH = "/tmp/x/app.log"
    /\ out.to = "/tmp/x/app.log"
    /\ Len(out.landed) = 1

====
